---- MODULE Spec2Model ----
(***************************************************************************)
(* SinglyLinkedList<T> of src/SinglyLinkedList.hpp as a state machine.     *)
(*                                                                         *)
(* The heap is a pool of node cells 1..MaxNodes.  A cell is either live    *)
(* (allocated by make_unique<Node>) or free.  A list object is the triple  *)
(* head / tail / list_size.  head and every next link are owning pointers  *)
(* (std::shared_ptr with a use count of one: the code only ever moves      *)
(* them), tail is a raw observing pointer.  Dropping the owning pointer of *)
(* a node frees the node and, through ~Node, whatever its next still owns. *)
(*                                                                         *)
(* The allocator may hand out any free cell, so a raw pointer that was     *)
(* left dangling can later compare equal to a freshly allocated node.      *)
(* Dereferencing a null pointer ends the run (crashed).  Writing through a *)
(* dangling pointer either ends the run or lands in the freed cell;        *)
(* reading through one either ends the run or yields an arbitrary value.   *)
(***************************************************************************)
EXTENDS Integers, Sequences, FiniteSets, TLC

MaxNodes == 3      \* cells in the heap
MaxSize  == 3      \* list_size is not incremented beyond MaxSize
MaxWrap  == 1      \* list_size is not decremented below -MaxWrap
MaxAdds  == 4      \* pushes counted per list in the deque specification
MaxCap   == 4      \* array capacities N range over 1..MaxCap

NULL   == 0
Nodes  == 1..MaxNodes
Values == {1, 2}
Lists  == {"x", "y"}

VARIABLES
    data,        \* Node::data of every cell (0 while the cell is free)
    next,        \* Node::next of every cell (NULL while the cell is free)
    live,        \* the allocated cells
    head,        \* SinglyLinkedList::head  per list
    tail,        \* SinglyLinkedList::tail  per list
    list_size,   \* SinglyLinkedList::list_size per list, a std::size_t kept
                 \* modulo 2^64: -k stands for 2^64 - k (0 decremented is -1)
    crashed,     \* the process was ended by a memory fault
    last,        \* the call that has just returned, thrown or faulted, until
                 \* the caller goes on (then Idle)
    abs,         \* deque specification: the abstract sequence per list
    adds,        \* deque specification: number of pushes per list
    removes,     \* deque specification: number of pops per list
    copied       \* copy specification: a list has been copy-constructed

heapvars == <<data, next, live>>
listvars == <<head, tail, list_size>>
ghost    == <<abs, adds, removes, copied>>
vars     == <<data, next, live, head, tail, list_size, crashed, last,
              abs, adds, removes, copied>>

----------------------------------------------------------------------------
(* Heap helpers *)

\* The nodes visited from n by following next links (at most fuel of them).
RECURSIVE PathFrom(_, _, _)
PathFrom(nx, n, fuel) ==
    IF n = NULL \/ fuel = 0 THEN <<>>
    ELSE <<n>> \o PathFrom(nx, nx[n], fuel - 1)

Path(nx, h) == PathFrom(nx, h, MaxNodes + 1)

\* Traversal of list l from head: the node cells and their values.
Chain(l) == Path(next, head[l])
Elems(l) == [i \in 1..Len(Chain(l)) |-> data[Chain(l)[i]]]

SeqToSet(s) == {s[i] : i \in 1..Len(s)}

IndexOf(s, e) ==
    IF e \in SeqToSet(s) THEN CHOOSE i \in 1..Len(s) : s[i] = e ELSE 0

\* Cells freed when the owning pointer to n is dropped: n itself and, through
\* ~Node, the chain its next links still own.
RECURSIVE FreedBy(_, _, _)
FreedBy(nx, lv, n) ==
    IF n = NULL \/ n \notin lv THEN {}
    ELSE {n} \cup FreedBy(nx, lv \ {n}, nx[n])

Scrub(f, S) == [n \in Nodes |-> IF n \in S THEN 0 ELSE f[n]]

\* A walk that compares the node itself with target, not its successor.
FindPredOffByOne(nx, h, target) ==
    IF target # NULL /\ target \in {PathFrom(nx, h, MaxNodes + 1)[i] :
                                      i \in 1..Len(PathFrom(nx, h, MaxNodes + 1))}
        THEN target ELSE NULL

\* The first node reached from h whose successor is target, or NULL.
RECURSIVE FindPredFrom(_, _, _, _)
FindPredFrom(nx, n, target, fuel) ==
    IF n = NULL \/ fuel = 0 THEN NULL
    ELSE IF nx[n] = target THEN n
    ELSE FindPredFrom(nx, nx[n], target, fuel - 1)

\* A walk that settles on the head when no node precedes target.
FindPredOrHead(nx, h, target) ==
    IF FindPredFrom(nx, h, target, MaxNodes + 1) = NULL THEN h
    ELSE FindPredFrom(nx, h, target, MaxNodes + 1)

FindPred(nx, h, target) == FindPredFrom(nx, h, target, MaxNodes + 1)

\* Where the Node* argument pos lies for list l: the end position (nullptr),
\* a node of l's chain (with its 0-based index), or a node of another list.
Where(l, pos) ==
    IF pos = NULL THEN [kind |-> "end", k |-> 0]
    ELSE IF pos \in SeqToSet(Chain(l))
        THEN [kind |-> "node", k |-> IndexOf(Chain(l), pos) - 1]
    ELSE [kind |-> "foreign", k |-> 0]

NoPos == [kind |-> "none", k |-> 0]

\* The record of a call: the operation, the list it ran on, the other list
\* (move, swap), where its position argument lay, and how it ended.
Call(op, l, l2, at, res) ==
    [op |-> op, l |-> l, l2 |-> l2, at |-> at, res |-> res]

\* No call is in progress or waiting to be observed.
Idle == Call("idle", "x", "x", NoPos, "ok")

\* The caller may issue the next call.
Ready == ~crashed /\ last = Idle

Fault(op, l, l2, at) ==
    /\ crashed' = TRUE
    /\ last' = Call(op, l, l2, at, "fault")
    /\ UNCHANGED <<heapvars, listvars>>

----------------------------------------------------------------------------
(* std::make_unique<Node>(val) on a free cell n the allocator picks:
   Node(T value) : data(value), next(nullptr) *)
Node(n, v) ==
    [d  |-> [data EXCEPT ![n] = v],
     nx |-> [next EXCEPT ![n] = NULL],
     lv |-> live \cup {n}]

Init ==
    /\ data = [n \in Nodes |-> 0]
    /\ next = [n \in Nodes |-> NULL]
    /\ live = {}
    /\ head = [l \in Lists |-> NULL]
    /\ tail = [l \in Lists |-> NULL]
    /\ list_size = [l \in Lists |-> 0]
    /\ crashed = FALSE
    /\ last = Idle
    /\ abs = [l \in Lists |-> <<>>]
    /\ adds = [l \in Lists |-> 0]
    /\ removes = [l \in Lists |-> 0]
    /\ copied = FALSE

----------------------------------------------------------------------------
(* Outcomes shared by the operations *)

\* The call returns normally with the given heap and list fields of l.
Return(call, d, nx, lv, h, t, sz) ==
    /\ data' = d /\ next' = nx /\ live' = lv
    /\ head' = h /\ tail' = t /\ list_size' = sz
    /\ crashed' = crashed
    /\ last' = call

\* The call throws std::runtime_error before it has changed anything.
Throw(call) ==
    /\ last' = call
    /\ UNCHANGED <<heapvars, listvars, crashed>>

----------------------------------------------------------------------------
(* void push_back(T val) *)
push_back(l, v) ==
    /\ Ready
    /\ list_size[l] < MaxSize
    /\ \E n \in Nodes \ live :
        LET c    == Node(n, v)
            t    == tail[l]
            call == Call("push_back", l, l, NoPos, "ok")
            sz   == [list_size EXCEPT ![l] = @ + 1]
        IN
        IF head[l] = NULL THEN
            Return(call, c.d, c.nx, c.lv,
                   [head EXCEPT ![l] = n], [tail EXCEPT ![l] = n], sz)
        ELSE IF t = NULL THEN
            Fault("push_back", l, l, NoPos)
        ELSE IF t \in c.lv THEN
            \* tail->next = std::move(newNode): the link is set, then what it
            \* owned before is released
            LET nx2 == [c.nx EXCEPT ![t] = n]
                F   == FreedBy(nx2, c.lv, c.nx[t])
            IN Return(call, Scrub(c.d, F), Scrub(nx2, F), c.lv \ F,
                      head, [tail EXCEPT ![l] = n], sz)
        ELSE
            \* tail refers to a freed cell: the write faults, or lands in the
            \* freed cell and the new node is owned by nothing reachable
            \/ Fault("push_back", l, l, NoPos)
            \/ Return(call, c.d, c.nx, c.lv, head, [tail EXCEPT ![l] = n], sz)

\* push_front that forgets tail when the list was empty.
push_front_forgets_tail(l, v, call) ==
    /\ Ready
    /\ list_size[l] < MaxSize
    /\ \E n \in Nodes \ live :
        LET c == Node(n, v)
        IN Return(call, c.d, [c.nx EXCEPT ![n] = head[l]], c.lv,
                  [head EXCEPT ![l] = n], tail,
                  [list_size EXCEPT ![l] = @ + 1])

(* void push_front(T val); call is what the caller records as executed *)
push_front_body(l, v, call) ==
    /\ Ready
    /\ list_size[l] < MaxSize
    /\ \E n \in Nodes \ live :
        LET c  == Node(n, v)
            sz == [list_size EXCEPT ![l] = @ + 1]
        IN
        IF head[l] = NULL THEN
            Return(call, c.d, c.nx, c.lv,
                   [head EXCEPT ![l] = n], [tail EXCEPT ![l] = n], sz)
        ELSE
            Return(call, c.d, [c.nx EXCEPT ![n] = head[l]], c.lv,
                   [head EXCEPT ![l] = n], tail, sz)

push_front(l, v) == push_front_body(l, v, Call("push_front", l, l, NoPos, "ok"))

(* void pop_back() *)
pop_back(l) ==
    /\ Ready
    /\ list_size[l] > -MaxWrap
    /\ IF head[l] = NULL THEN
           Throw(Call("pop_back", l, l, NoPos, "EmptyContainer"))
       ELSE IF head[l] = tail[l] THEN
           \* head.reset()
           LET F == FreedBy(next, live, head[l])
           IN Return(Call("pop_back", l, l, NoPos, "ok"),
                     Scrub(data, F), Scrub(next, F), live \ F,
                     [head EXCEPT ![l] = NULL], [tail EXCEPT ![l] = NULL],
                     [list_size EXCEPT ![l] = @ - 1])
       ELSE
           LET current == FindPred(next, head[l], tail[l])
           IN IF current = NULL THEN
                  \* the walk runs off the end of the chain: current->next
                  \* on a null current
                  Fault("pop_back", l, l, NoPos)
              ELSE
                  \* current->next.reset()
                  LET F == FreedBy(next, live, next[current])
                  IN Return(Call("pop_back", l, l, NoPos, "ok"),
                            Scrub(data, F),
                            Scrub([next EXCEPT ![current] = NULL], F),
                            live \ F,
                            head, [tail EXCEPT ![l] = current],
                            [list_size EXCEPT ![l] = @ - 1])

\* pop_front without the check for an empty list: head->next on a null head.
pop_front_unchecked(l) ==
    /\ Ready
    /\ list_size[l] > -MaxWrap
    /\ IF head[l] = NULL THEN
           Fault("pop_front", l, l, NoPos)
       ELSE
           Return(Call("pop_front", l, l, NoPos, "ok"),
                  Scrub(data, {head[l]}), Scrub(next, {head[l]}), live \ {head[l]},
                  [head EXCEPT ![l] = next[head[l]]],
                  IF next[head[l]] = NULL THEN [tail EXCEPT ![l] = NULL] ELSE tail,
                  [list_size EXCEPT ![l] = @ - 1])

(* void pop_front() *)
pop_front(l) ==
    /\ Ready
    /\ list_size[l] > -MaxWrap
    /\ IF head[l] = NULL THEN
           Throw(Call("pop_front", l, l, NoPos, "EmptyContainer"))
       ELSE
           \* head = std::move(head->next): the old head is freed alone
           LET h  == head[l]
               F  == {h}
               h2 == next[h]
           IN Return(Call("pop_front", l, l, NoPos, "ok"),
                     Scrub(data, F), Scrub(next, F), live \ F,
                     [head EXCEPT ![l] = h2],
                     IF h2 = NULL THEN [tail EXCEPT ![l] = NULL] ELSE tail,
                     [list_size EXCEPT ![l] = @ - 1])

(* void insert_before(Node* pos, T val) *)
insert_before(l, pos, v) ==
    IF pos = head[l] THEN
        push_front_body(l, v, Call("insert_before", l, l, Where(l, pos), "ok"))
    ELSE
        /\ Ready
        /\ LET current == FindPred(next, head[l], pos)
           IN IF current = NULL THEN
                  Throw(Call("insert_before", l, l, Where(l, pos), "PositionNotFound"))
              ELSE
                  /\ list_size[l] < MaxSize
                  /\ \E n \in Nodes \ live :
                      LET c   == Node(n, v)
                          \* newNode->next = std::move(current->next);
                          \* current->next = std::move(newNode);
                          nx2 == [c.nx EXCEPT ![n] = c.nx[current], ![current] = n]
                      IN Return(Call("insert_before", l, l, Where(l, pos), "ok"),
                                c.d, nx2, c.lv, head,
                                \* if (current->next.get() == tail)
                                \*     tail = current->next.get();
                                IF nx2[current] = tail[l]
                                    THEN [tail EXCEPT ![l] = nx2[current]]
                                    ELSE tail,
                                [list_size EXCEPT ![l] = @ + 1])

\* The walk of erase_before from current with prev behind it: the node whose
\* successor is pos is found, or the walk throws, or it steps onto null.
RECURSIVE EraseWalk(_, _, _, _, _)
EraseWalk(nx, prev, current, pos, fuel) ==
    IF nx[current] = pos \/ fuel = 0 THEN
        [kind |-> "found", prev |-> prev, current |-> current]
    ELSE IF nx[current] = NULL THEN
        \* current = current->next.get() is null and current->next is read
        [kind |-> "fault", prev |-> current, current |-> NULL]
    ELSE IF nx[nx[current]] = NULL THEN
        [kind |-> "notfound", prev |-> current, current |-> nx[current]]
    ELSE EraseWalk(nx, current, nx[current], pos, fuel - 1)

(* void erase_before(Node* pos) *)
erase_before(l, pos) ==
    /\ Ready
    /\ list_size[l] > -MaxWrap
    /\ IF pos = head[l] \/ head[l] = NULL THEN
           Throw(Call("erase_before", l, l, Where(l, pos), "InvalidOperation"))
       ELSE
           LET w == EraseWalk(next, NULL, head[l], pos, MaxNodes + 1)
           IN IF w.kind = "fault" THEN
                  Fault("erase_before", l, l, Where(l, pos))
              ELSE IF w.kind = "notfound" THEN
                  Throw(Call("erase_before", l, l, Where(l, pos), "PositionNotFound"))
              ELSE IF w.prev = NULL THEN
                  \* if (prev) is false: nothing is erased and nothing thrown
                  Return(Call("erase_before", l, l, Where(l, pos), "ok"),
                         data, next, live, head, tail, list_size)
              ELSE
                  \* prev->next = std::move(current->next): current is freed alone
                  LET F   == {w.current}
                      nx2 == [next EXCEPT ![w.prev] = next[w.current]]
                  IN Return(Call("erase_before", l, l, Where(l, pos), "ok"),
                            Scrub(data, F), Scrub(nx2, F), live \ F, head,
                            IF nx2[w.prev] = NULL
                                THEN [tail EXCEPT ![l] = w.prev]
                                ELSE tail,
                            [list_size EXCEPT ![l] = @ - 1])

(* void clear() *)
clear(l) ==
    /\ Ready
    /\ LET F == FreedBy(next, live, head[l])
       IN Return(Call("clear", l, l, NoPos, "ok"),
                 Scrub(data, F), Scrub(next, F), live \ F,
                 [head EXCEPT ![l] = NULL], [tail EXCEPT ![l] = NULL],
                 [list_size EXCEPT ![l] = 0])

\* The ways to pick n distinct cells out of S, in the order they are taken.
Picks(S, n) ==
    {cs \in [1..n -> S] : \A i, j \in 1..n : i # j => cs[i] # cs[j]}

\* for (const auto& item : vals) push_back(item), on a list l that is empty
\* (head == nullptr) when the loop starts: each push_back takes a free cell
\* from the allocator, links it behind tail, moves tail and counts.
\* (d, nx, lv, h, t, sz) is the state the loop starts in.
push_back_each(call, l, vals, d, nx, lv, h, t, sz) ==
    /\ Len(vals) <= MaxSize
    /\ \E cs \in Picks(Nodes \ lv, Len(vals)) :
        LET n  == Len(vals)
            at(c) == CHOOSE i \in 1..n : cs[i] = c
            C  == {cs[i] : i \in 1..n}
        IN Return(call,
                  [c \in Nodes |-> IF c \in C THEN vals[at(c)] ELSE d[c]],
                  [c \in Nodes |-> IF c \notin C THEN nx[c]
                                   ELSE IF at(c) < n THEN cs[at(c) + 1]
                                   ELSE NULL],
                  lv \cup C,
                  [h EXCEPT ![l] = IF n = 0 THEN NULL ELSE cs[1]],
                  [t EXCEPT ![l] = IF n = 0 THEN NULL ELSE cs[n]],
                  [sz EXCEPT ![l] = n])

\* A list object that has just been default-initialised, or a name that is
\* not in use: head(nullptr), tail(nullptr), list_size(0).
Fresh(l) == head[l] = NULL /\ tail[l] = NULL /\ list_size[l] = 0

(* SinglyLinkedList(SinglyLinkedList&& other): a new list l is constructed
   from std::move(other) *)
move_construct(l, other) ==
    /\ Ready
    /\ l # other
    /\ Fresh(l)
    /\ Return(Call("move_construct", l, other, NoPos, "ok"),
              data, next, live,
              [head EXCEPT ![l] = head[other], ![other] = NULL],
              [tail EXCEPT ![l] = tail[other], ![other] = NULL],
              [list_size EXCEPT ![l] = list_size[other], ![other] = 0])

(* SinglyLinkedList(const SinglyLinkedList& other): a new list l is
   constructed as a copy of other.  this != &other holds for a new object;
   clear() on the fresh object changes nothing; then the loop pushes
   current->data for every node reached from other.head. *)
copy_construct(l, other) ==
    /\ Ready
    /\ l # other
    /\ Fresh(l)
    /\ push_back_each(Call("copy_construct", l, other, NoPos, "ok"),
                      l, Elems(other), data, next, live, head, tail, list_size)

\* A move assignment without the this != &other test: other.tail = nullptr
\* and other.list_size = 0 then reset the list that was assigned to itself.
move_assign_unguarded(l, other) ==
    /\ Ready
    /\ LET F == IF l = other THEN {} ELSE FreedBy(next, live, head[l])
       IN Return(Call("move_assign", l, other, NoPos, "ok"),
                 Scrub(data, F), Scrub(next, F), live \ F,
                 [head EXCEPT ![l] = head[other], ![other] = NULL],
                 [tail EXCEPT ![l] = tail[other], ![other] = NULL],
                 [list_size EXCEPT ![l] = list_size[other], ![other] = 0])

(* SinglyLinkedList& operator=(SinglyLinkedList&& other): l = std::move(other) *)
move_assign(l, other) ==
    /\ Ready
    /\ IF l = other THEN
           Return(Call("move_assign", l, other, NoPos, "ok"),
                  data, next, live, head, tail, list_size)
       ELSE
           \* head = std::move(other.head) releases the chain l owned
           LET F == FreedBy(next, live, head[l])
           IN Return(Call("move_assign", l, other, NoPos, "ok"),
                     Scrub(data, F), Scrub(next, F), live \ F,
                     [head EXCEPT ![l] = head[other], ![other] = NULL],
                     [tail EXCEPT ![l] = tail[other], ![other] = NULL],
                     [list_size EXCEPT ![l] = list_size[other], ![other] = 0])

(* friend void swap(SinglyLinkedList& first, SinglyLinkedList& second) *)
swap(first, second) ==
    /\ Ready
    /\ Return(Call("swap", first, second, NoPos, "ok"),
              data, next, live,
              [head EXCEPT ![first] = head[second], ![second] = head[first]],
              [tail EXCEPT ![first] = tail[second], ![second] = tail[first]],
              [list_size EXCEPT ![first] = list_size[second],
                                ![second] = list_size[first]])

(* SinglyLinkedList& operator=(const std::vector<T>& vec): l = vec.
   clear(), then push_back of every item of vec. *)
assign_vector(l, vec) ==
    /\ Ready
    /\ LET F == FreedBy(next, live, head[l])
       IN push_back_each(Call("assign_vector", l, l, NoPos, "ok"), l, vec,
                         Scrub(data, F), Scrub(next, F), live \ F,
                         [head EXCEPT ![l] = NULL], [tail EXCEPT ![l] = NULL],
                         [list_size EXCEPT ![l] = 0])

(* SinglyLinkedList& operator=(const std::array<T, N>& arr): l = arr.
   clear(), then push_back of every item of arr. *)
assign_array(l, arr) ==
    /\ Ready
    /\ LET F == FreedBy(next, live, head[l])
       IN push_back_each(Call("assign_array", l, l, NoPos, "ok"), l, arr,
                         Scrub(data, F), Scrub(next, F), live \ F,
                         [head EXCEPT ![l] = NULL], [tail EXCEPT ![l] = NULL],
                         [list_size EXCEPT ![l] = 0])

\* What a const accessor does: it returns ret, throws, or faults.
Outcome(res, ret) == [res |-> res, ret |-> ret]

(* T getHead() const: its outcome in the current state *)
getHead(l) ==
    IF head[l] = NULL THEN Outcome("EmptyContainer", 0)
    ELSE Outcome("ok", data[head[l]])

(* T getTail() const: its possible outcomes in the current state *)
getTail(l) ==
    IF tail[l] = NULL THEN {Outcome("EmptyContainer", 0)}
    ELSE IF tail[l] \in live THEN {Outcome("ok", data[tail[l]])}
    ELSE
        \* tail refers to a freed cell: the read faults or yields anything
        \* (0 stands for every value outside Values)
        {Outcome("fault", 0)} \cup {Outcome("ok", g) : g \in Values \cup {0}}

(* std::size_t size() const *)
size(l) == list_size[l]

(* std::vector<T> to_vector() const: its outcome in the current state.
   vec.reserve(list_size) throws std::length_error when list_size exceeds
   max_size(), which a list_size that has wrapped below zero does; then the
   items met between begin() and end() are appended in order. *)
to_vector(l) ==
    IF list_size[l] < 0 THEN [res |-> "length_error", vec |-> <<>>]
    ELSE [res |-> "ok", vec |-> Elems(l)]

----------------------------------------------------------------------------
(* Conversions to std::array<T, N>.  An array is a sequence of N entries. *)

\* T() for the element type of the lists, int.
DefaultT == 0

\* The content of an entry of std::array<T, N> arr; before it is written.
Indeterminate == -1

\* The capacities the conversions are instantiated with.
Capacities == 1..MaxCap

\* std::array<T, N> arr;
NewArray(N) == [k \in 1..N |-> Indeterminate]

\* arr.fill(T()): every entry of arr becomes T().
fill(arr) == [k \in DOMAIN arr |-> DefaultT]

\* for (const auto& item : *this) { if (i >= N) <leave>; arr[i++] = item; }
\* from the point where i items have been stored.  full tells that the
\* loop was left at i >= N with an item still to come.
RECURSIVE StoreItems(_, _, _)
StoreItems(arr, items, i) ==
    IF i >= Len(items) THEN [full |-> FALSE, arr |-> arr, i |-> i]
    ELSE IF i >= Len(arr) THEN [full |-> TRUE, arr |-> arr, i |-> i]
    ELSE StoreItems([arr EXCEPT ![i + 1] = items[i + 1]], items, i + 1)

\* What a conversion does: it returns arr or throws.
Converted(res, arr) == [res |-> res, arr |-> arr]

(* std::array<T, N> to_array_pad() const *)
to_array_pad(N, l) ==
    IF N < 1 THEN Converted("InvalidCapacity", <<>>)
    ELSE LET r == StoreItems(NewArray(N), Elems(l), 0)
         IN IF r.full THEN Converted("LengthMismatch", <<>>)
            ELSE IF r.i < N THEN Converted("ok", fill(r.arr))
            ELSE Converted("ok", r.arr)

(* std::array<T, N> to_array_cut() const *)
to_array_cut(N, l) ==
    IF N < 1 THEN Converted("InvalidCapacity", <<>>)
    ELSE LET r == StoreItems(NewArray(N), Elems(l), 0)
         IN IF r.full THEN Converted("ok", r.arr)
            ELSE IF r.i < N THEN Converted("LengthMismatch", <<>>)
            ELSE Converted("ok", r.arr)

(* std::array<T, N> to_array_auto() const *)
to_array_auto(N, l) ==
    IF N < 1 THEN Converted("InvalidCapacity", <<>>)
    ELSE LET r == StoreItems(NewArray(N), Elems(l), 0)
         IN IF r.full THEN Converted("ok", r.arr)
            ELSE IF r.i < N THEN Converted("ok", fill(r.arr))
            ELSE Converted("ok", r.arr)

----------------------------------------------------------------------------
(* The positions a caller can pass as Node*: the end position (nullptr) and
   the nodes it can reach by iterating over any of the lists *)
Positions == {NULL} \cup UNION {SeqToSet(Chain(l)) : l \in Lists}

(* The caller has seen how the call ended (the return, or the catch of the
   std::runtime_error) and goes on to its next statement. *)
Resume ==
    /\ ~crashed
    /\ last # Idle
    /\ last' = Idle
    /\ UNCHANGED <<heapvars, listvars, crashed, ghost>>

Next ==
    \/ \E l \in Lists, v \in Values : push_back(l, v) /\ UNCHANGED ghost
    \/ \E l \in Lists, v \in Values : push_front(l, v) /\ UNCHANGED ghost
    \/ \E l \in Lists : pop_back(l) /\ UNCHANGED ghost
    \/ \E l \in Lists : pop_front(l) /\ UNCHANGED ghost
    \/ \E l \in Lists, pos \in Positions, v \in Values :
           insert_before(l, pos, v) /\ UNCHANGED ghost
    \/ \E l \in Lists, pos \in Positions : erase_before(l, pos) /\ UNCHANGED ghost
    \/ \E l \in Lists : clear(l) /\ UNCHANGED ghost
    \/ \E l \in Lists, other \in Lists : move_assign(l, other) /\ UNCHANGED ghost
    \/ \E first \in Lists, second \in Lists : swap(first, second) /\ UNCHANGED ghost
    \/ \E l \in Lists, other \in Lists : move_construct(l, other) /\ UNCHANGED ghost
    \/ \E l \in Lists, other \in Lists : copy_construct(l, other) /\ UNCHANGED ghost
    \/ \E l \in Lists, other \in Lists :
           \* l = other.to_vector()
           /\ Ready
           /\ to_vector(other).res = "ok"
           /\ assign_vector(l, to_vector(other).vec)
           /\ UNCHANGED ghost
    \/ \E l \in Lists, other \in Lists, N \in Capacities :
           \* l = other.to_array_auto<N>(), with an array whose entries are
           \* element values
           /\ Ready
           /\ to_array_auto(N, other).res = "ok"
           /\ \A k \in 1..N : to_array_auto(N, other).arr[k] \in Values
           /\ assign_array(l, to_array_auto(N, other).arr)
           /\ UNCHANGED ghost
    \/ Resume

Spec == Init /\ [][Next]_vars

----------------------------------------------------------------------------
(* Sanity of the model itself *)
ModelSane ==
    /\ \A l \in Lists : list_size[l] \in -MaxWrap..MaxSize
    /\ \A l \in Lists : SeqToSet(Chain(l)) \subseteq live
    /\ \A l \in Lists : Len(Chain(l)) <= MaxNodes

----------------------------------------------------------------------------
(* The deque specification: only push_back, push_front, pop_front and
   pop_back are called, a pop only while the abstract sequence is non-empty.
   abs is the abstract sequence, adds and removes count the calls. *)
Front(s) == SubSeq(s, 1, Len(s) - 1)

DequePushBack ==
    \E l \in Lists, v \in Values :
        /\ adds[l] < MaxAdds
        /\ push_back(l, v)
        /\ abs' = [abs EXCEPT ![l] = Append(@, v)]
        /\ adds' = [adds EXCEPT ![l] = @ + 1]
        /\ UNCHANGED <<removes, copied>>

DequePushFront ==
    \E l \in Lists, v \in Values :
        /\ adds[l] < MaxAdds
        /\ push_front(l, v)
        /\ abs' = [abs EXCEPT ![l] = <<v>> \o @]
        /\ adds' = [adds EXCEPT ![l] = @ + 1]
        /\ UNCHANGED <<removes, copied>>

\* A removal that counts as a pop_front but takes the element at the back.
DequePopFrontTakesBack ==
    \E l \in Lists :
        /\ abs[l] # <<>>
        /\ pop_back(l)
        /\ abs' = [abs EXCEPT ![l] = Tail(@)]
        /\ removes' = [removes EXCEPT ![l] = @ + 1]
        /\ UNCHANGED <<adds, copied>>

DequePopFront ==
    \E l \in Lists :
        /\ abs[l] # <<>>
        /\ pop_front(l)
        /\ abs' = [abs EXCEPT ![l] = Tail(@)]
        /\ removes' = [removes EXCEPT ![l] = @ + 1]
        /\ UNCHANGED <<adds, copied>>

DequePopBack ==
    \E l \in Lists :
        /\ abs[l] # <<>>
        /\ pop_back(l)
        /\ abs' = [abs EXCEPT ![l] = Front(@)]
        /\ removes' = [removes EXCEPT ![l] = @ + 1]
        /\ UNCHANGED <<adds, copied>>

NextDeque ==
    \/ DequePushBack
    \/ DequePushFront
    \/ DequePopFront
    \/ DequePopBack
    \/ Resume

SpecDeque == Init /\ [][NextDeque]_vars

----------------------------------------------------------------------------
(* C1: for every sequence of push_back, push_front, pop_front and pop_back
   that never removes from an empty list, the list behaves like the abstract
   sequence: every call returns normally, traversal from head yields exactly
   the sequence, size() is the number of adds minus the number of removes,
   getHead() is its first and getTail() its last value. *)
DequeRefinesSequence ==
    /\ ~crashed
    /\ last.res = "ok"
    /\ \A l \in Lists :
        /\ Elems(l) = abs[l]
        /\ size(l) = adds[l] - removes[l]
        /\ size(l) = Len(abs[l])
        /\ abs[l] # <<>> =>
            /\ getHead(l) = Outcome("ok", abs[l][1])
            /\ getTail(l) = {Outcome("ok", abs[l][Len(abs[l])])}

DequeWitness ==
    /\ last.op = "pop_back"
    /\ last.l = "x"
    /\ adds["x"] >= 3
    /\ removes["x"] >= 2
    /\ Len(abs["x"]) = 2
    /\ abs["x"][1] # abs["x"][2]
    /\ Elems("x") = abs["x"]

----------------------------------------------------------------------------
(* Invariants of the data model, stated for every list after every call *)

(* C2: tail is reachable from head by following exactly size-1 next links,
   and tail.next is none. *)
TailIsLastNode ==
    \A l \in Lists :
        list_size[l] # 0 =>
            /\ list_size[l] \in 1..Len(Chain(l))
            /\ Chain(l)[list_size[l]] = tail[l]
            /\ next[tail[l]] = NULL

(* C3: list_size equals the number of nodes reachable from head. *)
SizeCountsNodes ==
    \A l \in Lists : list_size[l] = Len(Chain(l))

(* C4: size == 0 iff head is none iff tail is none. *)
EmptinessAgrees ==
    \A l \in Lists :
        /\ (list_size[l] = 0) <=> (head[l] = NULL)
        /\ (head[l] = NULL) <=> (tail[l] = NULL)

(* C5: tail never dangles: it is none, or a live node owned in the chain
   reachable from head, so that no call going through tail touches a
   released node. *)
TailNeverDangles ==
    \A l \in Lists :
        \/ tail[l] = NULL
        \/ tail[l] \in live /\ tail[l] \in SeqToSet(Chain(l))

----------------------------------------------------------------------------
(* Sequence operations used to state what a call does to the elements *)
RemoveAt(s, i)    == SubSeq(s, 1, i - 1) \o SubSeq(s, i + 1, Len(s))
InsertAt(s, i, v) == SubSeq(s, 1, i - 1) \o <<v>> \o SubSeq(s, i, Len(s))

(* C6: for a list of size >= 2 and a target node at index k >= 1,
   erase_before(target) removes exactly the element at index k-1: the
   remaining elements keep their order and size decreases by one. *)
EraseBeforeRemovesPredecessor ==
    [][last'.op = "erase_before" =>
        \A l \in Lists, pos \in Nodes :
            LET at == Where(l, pos)
            IN (/\ erase_before(l, pos)
                /\ Len(Chain(l)) >= 2
                /\ at.kind = "node"
                /\ at.k >= 1)
               => /\ last'.res = "ok"
                  /\ Elems(l)' = RemoveAt(Elems(l), at.k)
                  /\ list_size'[l] = list_size[l] - 1]_vars

(* C7: for a non-empty list and a target node at index k of it,
   insert_before(target, v) yields the prior sequence with v inserted at
   index k, the other elements in their order and size increased by one;
   with the head as target it does what push_front(v) does. *)
InsertBeforeInsertsAtTarget ==
    [][last'.op = "insert_before" =>
        \A l \in Lists, pos \in Nodes, v \in Values :
            LET at == Where(l, pos)
            IN (insert_before(l, pos, v) /\ at.kind = "node")
               => /\ last'.res = "ok"
                  /\ Elems(l)' = InsertAt(Elems(l), at.k + 1, v)
                  /\ list_size'[l] = list_size[l] + 1
                  /\ pos = head[l] => push_front_body(l, v, last')]_vars

InsertBeforeWitness ==
    /\ last.op = "insert_before"
    /\ last.res = "ok"
    /\ last.at.kind = "node"
    /\ last.at.k = 1
    /\ Len(Chain(last.l)) = 3
    /\ Elems(last.l)[1] = Elems(last.l)[3]
    /\ Elems(last.l)[2] # Elems(last.l)[1]

(* C8: when insert_before splices the new node after the previously last
   node (target is the end position of a non-empty list), tail is the new
   node afterwards: getTail() returns the inserted value and tail.next is
   none. *)
InsertAtEndUpdatesTail ==
    [][last'.op = "insert_before" =>
        \A l \in Lists, v \in Values :
            (insert_before(l, NULL, v) /\ head[l] # NULL)
            => /\ last'.res = "ok"
               /\ getTail(l)' = {Outcome("ok", v)}
               /\ next'[tail'[l]] = NULL]_vars

(* C9: erase_before on a non-empty list, with a target that is not the head
   and not the successor of any node reachable from head, throws
   PositionNotFound without stepping onto a none node and leaves the list
   unchanged. *)
EraseBeforeUnknownTargetThrows ==
    [][last'.op = "erase_before" =>
        \A l \in Lists, pos \in Positions :
            (/\ erase_before(l, pos)
             /\ head[l] # NULL
             /\ pos # head[l]
             /\ \A n \in SeqToSet(Chain(l)) : next[n] # pos)
            => /\ last'.res = "PositionNotFound"
               /\ ~crashed'
               /\ UNCHANGED <<heapvars, listvars>>]_vars

(* C10: on an empty list pop_front, pop_back, getHead and getTail each fail
   with EmptyContainer and the list stays empty and unchanged. *)
Empty(l) == head[l] = NULL /\ tail[l] = NULL /\ list_size[l] = 0

EmptyListCallsThrow ==
    [][\A l \in Lists :
        Empty(l) =>
            /\ getHead(l) = Outcome("EmptyContainer", 0)
            /\ getTail(l) = {Outcome("EmptyContainer", 0)}
            /\ (pop_front(l) \/ pop_back(l)) =>
                /\ last'.res = "EmptyContainer"
                /\ Empty(l)'
                /\ UNCHANGED <<heapvars, listvars, crashed>>]_vars

EmptyListWitness ==
    /\ last.op = "pop_back"
    /\ last.res = "EmptyContainer"
    /\ Empty(last.l)
    /\ last.l = "x"
    /\ head["y"] # NULL

(* C11: insert_before with a target that is not reachable from head (a node
   of another list) throws PositionNotFound and leaves the list unchanged:
   no node is created and no link is rewritten. *)
InsertBeforeForeignTargetThrows ==
    [][last'.op = "insert_before" =>
        \A l \in Lists, pos \in Nodes, v \in Values :
            (insert_before(l, pos, v) /\ Where(l, pos).kind = "foreign")
            => /\ last'.res = "PositionNotFound"
               /\ UNCHANGED <<heapvars, listvars, crashed>>]_vars

InsertBeforeForeignWitness ==
    /\ last.op = "insert_before"
    /\ last.at.kind = "foreign"
    /\ last.res = "PositionNotFound"
    /\ Len(Chain(last.l)) = 2

(* C12: after list other is moved into a distinct list l, by move
   construction or by move assignment onto an l with any contents, other is
   empty (head none, tail none, size 0) and l holds what other held: the
   same nodes (nothing is copied), hence the same elements in the same
   order, the same size, and l's tail is its last node. *)
LastOf(s) == IF s = <<>> THEN NULL ELSE s[Len(s)]

MoveTransfersContents ==
    [][last'.op \in {"move_assign", "move_construct"} =>
        \A l \in Lists, other \in Lists :
            (l # other /\ (move_assign(l, other) \/ move_construct(l, other)))
            => /\ Empty(other)'
               /\ Chain(l)' = Chain(other)
               /\ Elems(l)' = Elems(other)
               /\ list_size'[l] = list_size[other]
               /\ tail'[l] = LastOf(Chain(l)')
               /\ live' \subseteq live]_vars

----------------------------------------------------------------------------
(* The copy specification: lists are built and changed with push_back,
   push_front, pop_back, pop_front, insert_before, erase_before and clear,
   and a list is copy-constructed from the other; copied records that a copy
   construction has taken place. *)
CopyConstruct ==
    \E l \in Lists, other \in Lists :
        /\ copy_construct(l, other)
        /\ copied' = TRUE
        /\ UNCHANGED <<abs, adds, removes>>

NextCopy ==
    \/ CopyConstruct
    \/ \E l \in Lists, v \in Values : push_back(l, v) /\ UNCHANGED ghost
    \/ \E l \in Lists, v \in Values : push_front(l, v) /\ UNCHANGED ghost
    \/ \E l \in Lists : pop_back(l) /\ UNCHANGED ghost
    \/ \E l \in Lists : pop_front(l) /\ UNCHANGED ghost
    \/ \E l \in Lists, pos \in Positions, v \in Values :
           insert_before(l, pos, v) /\ UNCHANGED ghost
    \/ \E l \in Lists, pos \in Positions : erase_before(l, pos) /\ UNCHANGED ghost
    \/ \E l \in Lists : clear(l) /\ UNCHANGED ghost
    \/ Resume

SpecCopy == Init /\ [][NextCopy]_vars

(* C13: copy independence.  Once a list has been copy-constructed from the
   other, every push, pop, insert_before, erase_before or clear on one of
   the two lists leaves the other list's head, tail, size and element
   sequence as they were. *)
Mutators ==
    {"push_back", "push_front", "pop_back", "pop_front",
     "insert_before", "erase_before", "clear"}

CopyIndependence ==
    [][(copied /\ last'.op \in Mutators) =>
        \A m \in Lists \ {last'.l} :
            /\ head'[m] = head[m]
            /\ tail'[m] = tail[m]
            /\ list_size'[m] = list_size[m]
            /\ Elems(m)' = Elems(m)]_vars

(* C14: exclusive linear ownership.  In every reachable state every live
   node has exactly one owner (the head of one list or the next link of one
   live node), no node is reachable from the heads of two different lists,
   and no chain of next links runs into a cycle. *)
Owners(n) ==
    Cardinality({l \in Lists : head[l] = n})
    + Cardinality({c \in live : next[c] = n})

ExclusiveLinearOwnership ==
    /\ \A n \in live : Owners(n) = 1
    /\ \A l \in Lists : \A m \in Lists \ {l} :
           SeqToSet(Chain(l)) \cap SeqToSet(Chain(m)) = {}
    /\ \A n \in live : Len(Path(next, n)) <= MaxNodes

(* C15: copy construction yields a list equal to its source: for every
   source, the empty one included, the copy has the size of the source and
   its elements in the same traversal order, the copy's tail is the copy's
   own last node, and the source is unchanged. *)
CopyEqualsSource ==
    [][last'.op = "copy_construct" =>
        \A l \in Lists, other \in Lists :
            copy_construct(l, other)
            => /\ last'.res = "ok"
               /\ size(l)' = size(other)
               /\ Elems(l)' = Elems(other)
               /\ tail'[l] = LastOf(Chain(l)')
               /\ SeqToSet(Chain(l)') \cap SeqToSet(Chain(other)) = {}
               /\ head'[other] = head[other]
               /\ tail'[other] = tail[other]
               /\ size(other)' = size(other)
               /\ Chain(other)' = Chain(other)
               /\ Elems(other)' = Elems(other)]_vars

----------------------------------------------------------------------------
(* The queue specification: the list is used first-in first-out, values are
   appended with push_back and removed with pop_front, a pop only while
   something is queued.  abs is then the queue of the values appended and
   not yet removed, oldest first. *)
NextQueue ==
    \/ DequePushBack
    \/ DequePopFront
    \/ Resume

SpecQueue == Init /\ [][NextQueue]_vars

(* C16: in first-in first-out use every call returns normally and elements
   leave the front in the order they were appended: each pop_front removes
   the oldest value appended and not yet removed and keeps the others in
   order; at every point getHead() is that oldest value, getTail() is the
   value appended most recently, and size() is the number of values
   appended and not yet removed. *)
FifoOrder ==
    /\ [](\A l \in Lists :
            /\ last.res = "ok"
            /\ size(l) = adds[l] - removes[l]
            /\ Len(abs[l]) = adds[l] - removes[l]
            /\ abs[l] # <<>> =>
                /\ getHead(l) = Outcome("ok", Head(abs[l]))
                /\ getTail(l) = {Outcome("ok", LastOf(abs[l]))})
    /\ [][\A l \in Lists :
            pop_front(l) =>
                /\ getHead(l) = Outcome("ok", Head(abs[l]))
                /\ Elems(l)' = Tail(Elems(l))
                /\ Elems(l)' = abs'[l]]_vars

FifoWitness ==
    /\ last.op = "pop_front"
    /\ last.l = "x"
    /\ removes["x"] = 2
    /\ adds["x"] = 4
    /\ Elems("x") = <<2, 1>>

(* C17: dynamic-array round trip.  For every list L, the empty one
   included, L.to_vector() returns, and assigning it to a list M with any
   contents makes M have the size and the elements of L in the same order
   and leaves L's size and elements as they were. *)
VectorRoundTrip ==
    /\ [](\A L \in Lists : to_vector(L).res = "ok")
    /\ [][last'.op = "assign_vector" =>
            \A L \in Lists, M \in Lists :
                assign_vector(M, to_vector(L).vec)
                => /\ last'.res = "ok"
                   /\ size(M)' = size(L)
                   /\ Elems(M)' = Elems(L)
                   /\ size(L)' = size(L)
                   /\ Elems(L)' = Elems(L)
                   /\ M # L => head'[L] = head[L] /\ tail'[L] = tail[L]]_vars

(* C18: pad policy.  For every capacity N >= 1 and every list of size
   s <= N, to_array_pad<N> returns the list's s elements in traversal order
   followed by N - s default values; for s > N it throws. *)
Defaults(n) == [k \in 1..n |-> DefaultT]

PadPolicy ==
    \A l \in Lists, N \in Capacities :
        /\ size(l) <= N =>
            to_array_pad(N, l) = Converted("ok", Elems(l) \o Defaults(N - size(l)))
        /\ size(l) > N => to_array_pad(N, l).res = "LengthMismatch"

(* C19: truncate policy.  For every capacity N >= 1, to_array_cut<N> on a
   list of size s >= N returns the first N elements of the list in
   traversal order, and on a list of size s < N it throws LengthMismatch. *)
CutPolicy ==
    \A l \in Lists, N \in Capacities :
        /\ size(l) >= N =>
            /\ to_array_cut(N, l).res = "ok"
            /\ Len(to_array_cut(N, l).arr) = N
            /\ \A k \in 1..N :
                   /\ k <= Len(Elems(l))
                   /\ to_array_cut(N, l).arr[k] = Elems(l)[k]
        /\ size(l) < N => to_array_cut(N, l).res = "LengthMismatch"

(* C20: auto policy.  For every capacity N >= 1 and every list,
   to_array_auto<N> returns, and the array holds the first min(N, size)
   elements of the list in traversal order followed by default values; when
   size = N, assigning the returned array to a list makes that list equal
   to the original: same size, same elements in the same order. *)
Min(a, b) == IF a <= b THEN a ELSE b

AutoPolicy ==
    /\ [](\A l \in Lists, N \in Capacities :
            LET r == to_array_auto(N, l)
                m == Min(N, size(l))
            IN /\ r.res = "ok"
               /\ Len(r.arr) = N
               /\ \A k \in 1..N :
                      IF k <= m
                          THEN k <= Len(Elems(l)) /\ r.arr[k] = Elems(l)[k]
                          ELSE r.arr[k] = DefaultT)
    /\ [][last'.op = "assign_array" =>
            \A l \in Lists, other \in Lists :
                (/\ size(other) \in Capacities
                 /\ assign_array(l, to_array_auto(size(other), other).arr))
                => /\ last'.res = "ok"
                   /\ size(l)' = size(other)
                   /\ Elems(l)' = Elems(other)]_vars

(* C21: self-move-assignment is a no-op: l = std::move(l) returns and
   leaves l's head, tail, size and element sequence, and the heap, exactly
   as they were: the list is not emptied and no node is released. *)
SelfMoveAssignIsNoOp ==
    [][last'.op = "move_assign" =>
        \A l \in Lists :
            move_assign(l, l)
            => /\ last'.res = "ok"
               /\ head'[l] = head[l]
               /\ tail'[l] = tail[l]
               /\ size(l)' = size(l)
               /\ Elems(l)' = Elems(l)
               /\ live' = live
               /\ UNCHANGED <<heapvars, listvars, crashed>>]_vars

SelfMoveAssignWitness ==
    /\ last.op = "move_assign"
    /\ last.l = last.l2
    /\ last.res = "ok"
    /\ Len(Elems(last.l)) = 2
    /\ size(last.l) = 2

(* C22: swap(x, y) exchanges the complete contents of the two lists:
   afterwards x has y's former element sequence and size and y has x's, each
   list's tail is the last node of its own new chain (none if it is empty),
   swapping once more restores both lists, and swap(x, x) leaves x
   unchanged. *)
\* std::swap of the member f of lists a and b.
Exchanged(f, a, b) == [f EXCEPT ![a] = f[b], ![b] = f[a]]

SwapExchangesContents ==
    [][last'.op = "swap" =>
        \A x \in Lists, y \in Lists :
            swap(x, y)
            => /\ last'.res = "ok"
               /\ Elems(x)' = Elems(y) /\ Elems(y)' = Elems(x)
               /\ size(x)' = size(y) /\ size(y)' = size(x)
               /\ tail'[x] = LastOf(Chain(x)')
               /\ tail'[y] = LastOf(Chain(y)')
               /\ Exchanged(head', x, y) = head
               /\ Exchanged(tail', x, y) = tail
               /\ Exchanged(list_size', x, y) = list_size
               /\ UNCHANGED <<heapvars, crashed>>
               /\ x = y => UNCHANGED listvars]_vars

====
